---------------------------- MODULE Spec2Model ----------------------------
(***************************************************************************)
(* The deterministic rules engine of the customer-service copilot          *)
(* (backend/rules_engine/evaluator.py): RulesEngine.evaluate and its       *)
(* helpers _evaluate_condition and _evaluate_rule, as a state machine.     *)
(*                                                                         *)
(* Python values are records [t, n, s, l]: t is the type tag, n the        *)
(* number (or 1/0 for a bool), s the string, l the list.  A dict is a      *)
(* function from a finite universe of keys to values, the value Absent     *)
(* standing for "key not in dict".  A `when` dict is a sequence of         *)
(* (field, condition) pairs, because the code iterates it in insertion     *)
(* order.                                                                  *)
(***************************************************************************)
EXTENDS Integers, Sequences, FiniteSets, TLC

---------------------------------------------------------------------------
(* Bounds of the model *)

\* rules per RuleSet
MaxRules == 2
\* required_fields entries per RuleSet
MaxRequired == 2
\* numeric context values are 0..MaxNum
MaxNum == 2

---------------------------------------------------------------------------
(* Python values *)

Absent == [t |-> "absent", n |-> 0, s |-> "", l |-> <<>>]
None == [t |-> "none", n |-> 0, s |-> "", l |-> <<>>]
Str(x) == [t |-> "str", n |-> 0, s |-> x, l |-> <<>>]
Num(k) == [t |-> "num", n |-> k, s |-> "", l |-> <<>>]
Bool(b) == [t |-> "bool", n |-> (IF b THEN 1 ELSE 0), s |-> "", l |-> <<>>]
List(q) == [t |-> "list", n |-> 0, s |-> "", l |-> q]

\* d.get(k): the value under k, None when k is not in d
Get(d, k) == IF d[k] = Absent THEN None ELSE d[k]
\* d.get(k, default)
GetOr(d, k, default) == IF d[k] = Absent THEN default ELSE d[k]
\* k in d
Has(d, k) == d[k] # Absent

\* a == b in Python: numbers and bools compare by number (True == 1),
\* everything else by type and content; a str never equals a number
PyEq(a, b) ==
    IF a.t \in {"num", "bool"} /\ b.t \in {"num", "bool"}
    THEN a.n = b.n
    ELSE a = b

\* a < b and a > b are defined between numbers (and bools); a str, list or
\* None against a number raises TypeError
Orderable(a, b) == a.t \in {"num", "bool"} /\ b.t \in {"num", "bool"}

---------------------------------------------------------------------------
(* The RuleSet (rules_data) and the contexts the engine is called with *)

Fields == {"plan", "scoring", "motivo"}

ThenKeys == {"decision", "stop_allowed", "allowed_actions", "reason",
             "allow_stop_0euros", "requires_supervisor"}

DecisionKeys == {"status", "missing_field", "behavior", "question_data"}
                \cup ThenKeys

EmptyDict(keys) == [k \in keys |-> Absent]

\* a condition of a `when`: a literal (isdict FALSE) or a range object
Literal(v) == [isdict |-> FALSE, lit |-> v, min |-> Absent, max |-> Absent]
Range(lo, hi) == [isdict |-> TRUE, lit |-> Absent, min |-> lo, max |-> hi]

Then(pairs) ==
    [k \in ThenKeys |->
        IF \E i \in DOMAIN pairs : pairs[i][1] = k
        THEN pairs[CHOOSE i \in DOMAIN pairs : pairs[i][1] = k][2]
        ELSE Absent]

\* The pool the RuleSets of the model are built from.  The shapes are the
\* ones of the STOP_REPARTO scenarios of test_rules.py: an equality on plan,
\* ranges on scoring, a flag-only rule, a catch-all.
RuleExceso ==
    [id |-> Str("exceso_agua_ahorro"), priority |-> Num(2),
     when |-> << [field |-> "plan", condition |-> Literal(Str("Ahorro"))] >>,
     then |-> Then(<< <<"decision", Str("reconduccion")>>,
                      <<"stop_allowed", Bool(FALSE)>>,
                      <<"allowed_actions", List(<<"cambio_plan">>)>>,
                      <<"reason", Str("exceso_agua_plan_ahorro")>>,
                      <<"allow_stop_0euros", Bool(FALSE)>>,
                      <<"requires_supervisor", Bool(TRUE)>> >>)]

RuleScoring ==
    [id |-> Str("scoring_alto"), priority |-> Num(1),
     when |-> << [field |-> "scoring", condition |-> Range(Num(1), Absent)] >>,
     then |-> Then(<< <<"allow_stop_0euros", Bool(TRUE)>> >>)]

RuleLimite ==
    [id |-> Str("limite_stops"), priority |-> Num(1),
     when |-> << [field |-> "plan", condition |-> Literal(Str("Ahorro"))],
                 [field |-> "scoring", condition |-> Range(Absent, Num(1))] >>,
     then |-> Then(<< <<"decision", Str("retencion")>>,
                      <<"stop_allowed", Bool(TRUE)>>,
                      <<"allowed_actions", List(<<"stop_reparto">>)>>,
                      <<"requires_supervisor", Bool(FALSE)>> >>)]

RuleMotivo ==
    [id |-> Str("motivo_informado"), priority |-> Num(2),
     when |-> << [field |-> "motivo", condition |-> Range(Absent, Absent)] >>,
     then |-> Then(<< <<"decision", Str("retencion")>>,
                      <<"stop_allowed", None>>,
                      <<"reason", Str("motivo_informado")>> >>)]

RuleDefault ==
    [id |-> Absent, priority |-> Absent,
     when |-> << >>,
     then |-> Then(<< <<"decision", Str("escalar")>>,
                      <<"allow_stop_0euros", Bool(FALSE)>> >>)]

RulePool == {RuleExceso, RuleScoring, RuleLimite, RuleMotivo, RuleDefault}

\* sequences without repetition of at most n elements of S
RECURSIVE SeqsUpTo(_, _)
SeqsUpTo(S, n) ==
    IF n = 0 THEN {<< >>}
    ELSE LET shorter == SeqsUpTo(S, n - 1)
         IN  shorter \cup
             UNION {{Append(q, x) : x \in S \ {q[i] : i \in DOMAIN q}} :
                    q \in {p \in shorter : Len(p) = n - 1}}

MissingInfoBehavior ==
    [status |-> Str("ASK_CUSTOMER"),
     questions |-> [f \in Fields |->
                      CASE f = "plan" -> Str("Que plan tiene el cliente?")
                        [] f = "scoring" -> Str("Cual es el scoring del cliente?")
                        [] OTHER -> Absent]]

RuleSets ==
    {[required_fields |-> rf, missing_info_behavior |-> MissingInfoBehavior,
      rules |-> rs] : rf \in SeqsUpTo(Fields, MaxRequired),
                      rs \in SeqsUpTo(RulePool, MaxRules)}

\* the values a context field takes: not in the context, null, the three
\* placeholder strings, a plan name, numbers
ContextValues ==
    {Absent, None, Str(""), Str("null"), Str("desconocido"), Str("Ahorro")}
    \cup {Num(k) : k \in 0..MaxNum}

MotivoValues == {Absent, Str("desconocido"), Str("exceso_agua")}

Contexts ==
    {c \in [Fields -> ContextValues \cup MotivoValues] :
        /\ c["motivo"] \in MotivoValues
        /\ c["plan"] \in ContextValues
        /\ c["scoring"] \in ContextValues}

---------------------------------------------------------------------------
(* RulesEngine: the pure helpers *)

\* the missing-value test of the required-fields loop of evaluate
IsMissingValue(value) ==
    \/ value = None
    \/ PyEq(value, Str(""))
    \/ PyEq(value, Str("desconocido"))
    \/ PyEq(value, Str("null"))

\* _evaluate_condition with exclusive bounds (<= and >= for < and >)
EvaluateConditionExclusive(condition, context_value) ==
    IF context_value = None THEN "False"
    ELSE IF ~condition.isdict
    THEN (IF PyEq(condition.lit, context_value) THEN "True" ELSE "False")
    ELSE IF condition.min # Absent /\ ~Orderable(context_value, condition.min)
    THEN "TypeError"
    ELSE IF condition.min # Absent /\ context_value.n <= condition.min.n
    THEN "False"
    ELSE IF condition.max # Absent /\ ~Orderable(context_value, condition.max)
    THEN "TypeError"
    ELSE IF condition.max # Absent /\ context_value.n >= condition.max.n
    THEN "False"
    ELSE "True"

\* RulesEngine._evaluate_condition; the result is "True", "False" or
\* "TypeError" (the exception of an ordering comparison between a str and
\* a number)
_evaluate_condition(condition, context_value) ==
    IF context_value = None THEN "False"
    ELSE IF ~condition.isdict
    THEN (IF PyEq(condition.lit, context_value) THEN "True" ELSE "False")
    ELSE IF condition.min # Absent /\ ~Orderable(context_value, condition.min)
    THEN "TypeError"
    ELSE IF condition.min # Absent /\ context_value.n < condition.min.n
    THEN "False"
    ELSE IF condition.max # Absent /\ ~Orderable(context_value, condition.max)
    THEN "TypeError"
    ELSE IF condition.max # Absent /\ context_value.n > condition.max.n
    THEN "False"
    ELSE "True"

\* the loop of _evaluate_rule from the i-th (field, condition) pair on: the
\* first condition that is not true ends it (return False, or the exception
\* propagates)
RECURSIVE EvaluateWhen(_, _, _)
EvaluateWhen(when, customer_context, i) ==
    IF i > Len(when) THEN "True"
    ELSE LET r == _evaluate_condition(when[i].condition,
                                      Get(customer_context, when[i].field))
         IN  IF r = "True" THEN EvaluateWhen(when, customer_context, i + 1)
             ELSE r

\* _evaluate_rule returning after the first condition, whatever follows it
EvaluateRuleFirstOnly(rule, customer_context) ==
    IF Len(rule.when) = 0 THEN "True"
    ELSE _evaluate_condition(rule.when[1].condition,
                             Get(customer_context, rule.when[1].field))

\* RulesEngine._evaluate_rule
_evaluate_rule(rule, customer_context) ==
    EvaluateWhen(rule.when, customer_context, 1)

\* the calls of _evaluate_condition that _evaluate_rule makes, in order
RECURSIVE ConditionCalls(_, _, _)
ConditionCalls(when, customer_context, i) ==
    IF i > Len(when) THEN << >>
    ELSE LET v == Get(customer_context, when[i].field)
             r == _evaluate_condition(when[i].condition, v)
             call == [condition |-> when[i].condition, context_value |-> v,
                      result |-> r]
         IN  IF r = "True"
             THEN <<call>> \o ConditionCalls(when, customer_context, i + 1)
             ELSE <<call>>

\* key=lambda r: r.get("priority", 0)
PriorityKey(r) == IF r.priority = Absent THEN 0 ELSE r.priority.n

\* an insertion that puts r before the elements of equal key: an unstable sort
InsertBeforeEqual(q, r) ==
    LET pos == Cardinality({i \in DOMAIN q : PriorityKey(q[i]) > PriorityKey(r)})
    IN  SubSeq(q, 1, pos) \o <<r>> \o SubSeq(q, pos + 1, Len(q))

\* one insertion of a stable descending sort: r goes behind every element
\* whose key is not below its own
InsertByPriority(q, r) ==
    LET pos == Cardinality({i \in DOMAIN q : PriorityKey(q[i]) >= PriorityKey(r)})
    IN  SubSeq(q, 1, pos) \o <<r>> \o SubSeq(q, pos + 1, Len(q))

\* sorted(rules, key=priority, reverse=True): descending and stable
RECURSIVE sorted(_)
sorted(rs) ==
    IF rs = << >> THEN << >>
    ELSE InsertByPriority(sorted(SubSeq(rs, 1, Len(rs) - 1)), rs[Len(rs)])

\* the required-fields loop reporting the last missing field, not the first
LastMissingFrom(required_fields, customer_context, i) ==
    LET M == {j \in i..Len(required_fields) :
                 IsMissingValue(Get(customer_context, required_fields[j]))}
    IN  IF M = {} THEN 0 ELSE CHOOSE j \in M : \A k \in M : k <= j

\* the required-fields loop of evaluate from the i-th field on: the index of
\* the first missing field, 0 when none is missing
RECURSIVE FirstMissingFrom(_, _, _)
FirstMissingFrom(required_fields, customer_context, i) ==
    IF i > Len(required_fields) THEN 0
    ELSE IF IsMissingValue(Get(customer_context, required_fields[i])) THEN i
    ELSE FirstMissingFrom(required_fields, customer_context, i + 1)

\* the decision returned for a missing field
NeedInfoDecision(data, field) ==
    [EmptyDict(DecisionKeys) EXCEPT
        !["status"] = Str("NEED_INFO"),
        !["missing_field"] = Str(field),
        !["behavior"] = GetOr(data.missing_info_behavior, "status",
                              Str("NEED_INFO")),
        !["question_data"] = Get(data.missing_info_behavior.questions, field)]

\* the decision returned when matched_rules is empty
NoMatchDecision ==
    [EmptyDict(DecisionKeys) EXCEPT
        !["status"] = Str("RECOMMENDATION"),
        !["decision"] = Str("no_match"),
        !["stop_allowed"] = None,
        !["allowed_actions"] = List(<< >>),
        !["reason"] = Str("no_rules_matched")]

\* "rule_" + primary_rule.get("id", "unknown")
DefaultReason(rule) ==
    Str("rule_" \o (IF rule.id = Absent THEN "unknown" ELSE rule.id.s))

\* the decision seeded from the primary rule's then clause
BaseDecision(primary_rule) ==
    [EmptyDict(DecisionKeys) EXCEPT
        !["status"] = Str("RECOMMENDATION"),
        !["decision"] = GetOr(primary_rule.then, "decision", Str("unknown")),
        !["stop_allowed"] = Get(primary_rule.then, "stop_allowed"),
        !["allowed_actions"] = GetOr(primary_rule.then, "allowed_actions",
                                     List(<< >>)),
        !["reason"] = GetOr(primary_rule.then, "reason",
                            DefaultReason(primary_rule))]

\* the merge loop over matched_rules from the i-th rule on
RECURSIVE MergeFlags(_, _, _)
MergeFlags(decision, matched, i) ==
    IF i > Len(matched) THEN decision
    ELSE IF Has(matched[i].then, "allow_stop_0euros")
    THEN MergeFlags([decision EXCEPT !["allow_stop_0euros"] =
                        matched[i].then["allow_stop_0euros"]], matched, i + 1)
    ELSE MergeFlags(decision, matched, i + 1)

---------------------------------------------------------------------------
(* analyze_conversation: the data of a request *)

\* the labels the classifier answers with: the two that end the request
\* early, the two processes with a specialist, and one without any
Processes == {"SOCIAL", "UNKNOWN", "STOP_REPARTO", "AVISO_URGENTE",
              "CAMBIO_PLAN"}

\* confidences are hundredths: 30 is the 0.3 of `confidence < 0.3`
ConfidenceThreshold == 30
Confidences == {25, ConfidenceThreshold, 90}

\* the processes analyze_conversation has a specialist branch for
Specialists(variant) ==
    IF variant = "backend" THEN {"STOP_REPARTO"}
    ELSE {"STOP_REPARTO", "AVISO_URGENTE"}

\* rules_stop_reparto.json: plan is required
RulesStopReparto ==
    [required_fields |-> <<"plan">>,
     missing_info_behavior |-> MissingInfoBehavior,
     rules |-> <<RuleExceso, RuleScoring>>]

\* the RuleSet of a process other than STOP_REPARTO: plan is required, a
\* range on scoring and a catch-all
RulesOther ==
    [required_fields |-> <<"plan">>,
     missing_info_behavior |-> MissingInfoBehavior,
     rules |-> <<RuleScoring, RuleDefault>>]

\* the rules directory: per process the file it has, << >> when it has none
RulesDirs ==
    {[p \in Processes |->
        CASE p = "STOP_REPARTO" -> <<RulesStopReparto>>
          [] p = "AVISO_URGENTE" -> <<RulesOther>>
          [] p = "CAMBIO_PLAN" -> other
          [] OTHER -> << >>] : other \in {<< >>, <<RulesOther>>}}

\* request.customer_context as the caller sends it
StaticContexts ==
    {c \in [Fields -> {Absent, None, Str(""), Str("null"), Str("desconocido"),
                       Str("Ahorro"), Num(1)}] :
        /\ c["scoring"] \in {Absent, Str("desconocido"), Num(1)}
        /\ c["plan"] \notin {Num(1)}
        /\ c["motivo"] = Absent}

\* request.messages: none, or one message
MessageLists == {<< >>, <<"quiero parar el reparto">>}

Requests ==
    {[messages |-> m, customer_context |-> c] :
        m \in MessageLists, c \in StaticContexts}

\* extracted_data as the classifier's model answers it
ExtractedData ==
    {e \in [Fields -> {Absent, None, Str(""), Str("Estandar"), Bool(FALSE),
                       Num(0)}] :
        /\ e["plan"] \in {Absent, None, Str(""), Str("Estandar"), Bool(FALSE)}
        /\ e["scoring"] \in {Absent, Num(0)}
        /\ e["motivo"] = Absent}

\* the dict detect_process returns: extracted_data is << >> when the key is
\* not in it
Detection(process, confidence, extracted, error) ==
    [process |-> process, confidence |-> confidence,
     extracted_data |-> extracted, error |-> error]

\* the answers of the classifier's model that parse
ModelAnswers ==
    {Detection(Str(p), Num(c), <<e>>, Absent) :
        p \in Processes, c \in Confidences, e \in ExtractedData}

\* the keys of rules_decision and of recommendation in a response
PayloadKeys == DecisionKeys \cup {"message"}
RecommendationKeys ==
    {"titulo", "objetivo", "stop_permitido", "speech_sugerido",
     "siguiente_paso", "gestion_finalizada", "error"}

AsPayload(d) ==
    [k \in PayloadKeys |-> IF k \in DOMAIN d THEN d[k] ELSE Absent]

Recommendation(pairs) ==
    [k \in RecommendationKeys |->
        IF \E i \in DOMAIN pairs : pairs[i][1] = k
        THEN pairs[CHOOSE i \in DOMAIN pairs : pairs[i][1] = k][2]
        ELSE Absent]

\* a recommendation as the specialist's model answers it
ModelRecommendation ==
    Recommendation(<< <<"titulo", Str("Reconduccion")>>,
                      <<"objetivo", Str("Retener")>>,
                      <<"stop_permitido", Bool(FALSE)>>,
                      <<"speech_sugerido", Str("Le propongo otro plan")>>,
                      <<"siguiente_paso", Str("Esperar respuesta")>>,
                      <<"gestion_finalizada", Bool(FALSE)>> >>)

\* what the caller of analyze_conversation receives: an AnalyzeResponse
\* (kind "ok") or an HTTP error (kind "error"); recommendation is << >>
\* for None
NoRequest == [messages |-> << >>, customer_context |-> EmptyDict(Fields)]
NoDetection == Detection(Absent, Absent, << >>, Absent)
NoResponse ==
    [kind |-> "none", code |-> 0, status |-> "", process |-> "",
     confidence |-> Absent, rules_decision |-> EmptyDict(PayloadKeys),
     recommendation |-> << >>, enriched_context |-> EmptyDict(Fields)]

AnalyzeResponse(st, process, conf, rules_decision, recommendation, enriched) ==
    [kind |-> "ok", code |-> 200, status |-> st, process |-> process,
     confidence |-> conf, rules_decision |-> rules_decision,
     recommendation |-> recommendation, enriched_context |-> enriched]

HTTPException(status_code) == [NoResponse EXCEPT !.kind = "error",
                                                 !.code = status_code]

---------------------------------------------------------------------------
(* analyze_conversation: the pure steps *)

\* bool(value) in Python
Truthy(value) ==
    CASE value.t = "str" -> value.s # ""
      [] value.t \in {"num", "bool"} -> value.n # 0
      [] value.t = "list" -> value.l # << >>
      [] OTHER -> FALSE

\* the test on the extracted value: `if value` in main.py,
\* `if value is not None` in api/index.py
ValueTaken(variant, value) ==
    IF variant = "backend" THEN Truthy(value) ELSE value # None

\* the test on enriched_context.get(key)
CurrentReplaced(current_val) ==
    \/ current_val = None
    \/ PyEq(current_val, Str(""))
    \/ PyEq(current_val, Str("null"))

\* the merge loop without the test on the current value
MergeOverwriting(variant, static, extracted) ==
    [k \in Fields |->
        IF Has(extracted, k) /\ ValueTaken(variant, extracted[k])
        THEN extracted[k]
        ELSE static[k]]

\* the merge loop: each key of extracted_data is visited once and only its
\* own entry of enriched_context is read and written
MergeExtracted(variant, static, extracted) ==
    [k \in Fields |->
        IF /\ Has(extracted, k)
           /\ ValueTaken(variant, extracted[k])
           /\ CurrentReplaced(Get(static, k))
        THEN extracted[k]
        ELSE static[k]]

\* detection.get("extracted_data", {})
ExtractedOf(d) ==
    IF d.extracted_data = << >> THEN EmptyDict(Fields)
    ELSE d.extracted_data[1]

\* the test with the threshold itself counted as low: confidence <= 0.3
IsUnknownInclusive(process_name, confidence) ==
    \/ PyEq(process_name, Str("UNKNOWN"))
    \/ confidence.n <= ConfidenceThreshold

\* process_name == "UNKNOWN" or confidence < 0.3
IsUnknown(process_name, confidence) ==
    \/ PyEq(process_name, Str("UNKNOWN"))
    \/ confidence.n < ConfidenceThreshold

\* the dict RouterAgent.detect_process returns from its except branch
RouterFallback(variant) ==
    IF variant = "backend"
    THEN Detection(Str("UNKNOWN"), Num(0), << >>, Str("parse error"))
    ELSE Detection(Str("UNKNOWN"), Num(0), <<EmptyDict(Fields)>>, Absent)

\* the dict StopRepartoAgent.generate_recommendation returns from its
\* except branch
StopRepartoFallback(variant, rules_decision) ==
    IF variant = "backend"
    THEN Recommendation(<<
            <<"titulo", Str("Error al generar recomendacion")>>,
            <<"objetivo", Str("Error")>>,
            <<"stop_permitido",
              GetOr(rules_decision, "stop_allowed", Bool(FALSE))>>,
            <<"speech_sugerido", Str("Error en la generacion")>>,
            <<"siguiente_paso", Str("Contactar con soporte tecnico")>>,
            <<"error", Str("parse error")>> >>)
    ELSE Recommendation(<<
            <<"titulo", Str("Error en Recomendacion")>>,
            <<"objetivo", Str("Soporte")>>,
            <<"stop_permitido", Bool(FALSE)>>,
            <<"speech_sugerido", Str("Lo siento, ha habido un error")>>,
            <<"siguiente_paso", Str("Continuar de forma manual")>>,
            <<"gestion_finalizada", Bool(FALSE)>> >>)

\* the dict AvisoUrgenteAgent.generate_recommendation returns from its
\* except branch
AvisoUrgenteFallback ==
    Recommendation(<< <<"titulo", Str("Error")>>,
                      <<"speech_sugerido",
                        Str("Error al conectar con la IA.")>> >>)

\* the two fixed rules_decision payloads
SocialPayload ==
    [EmptyDict(PayloadKeys) EXCEPT
        !["status"] = Str("SOCIAL"),
        !["message"] = Str("Conversacion social detectada")]
UnknownPayload ==
    [EmptyDict(PayloadKeys) EXCEPT
        !["status"] = Str("UNKNOWN"),
        !["message"] = Str("Esperando solicitud de negocio...")]

---------------------------------------------------------------------------
(* RulesEngine.evaluate as a state machine *)

VARIABLES
    rules_data,        \* self.rules_data, loaded by __init__
    customer_context,  \* the argument of the current call of evaluate
    pc,                \* "idle", "gate", "match", "returned", "raised"
    rules,             \* the local list of sorted rules
    idx,               \* position of the matching loop in rules
    matched_rules,     \* the local list of matched rules
    result,            \* the dict evaluate returned
    rule_calls,        \* the calls of _evaluate_rule made by this call
    cond_calls,        \* the calls of _evaluate_condition made by this call
    impl,              \* which analyze_conversation runs: "backend" or "api"
    rules_dir,         \* the RuleSet sources on disk, by process name
    router_agent,      \* the module-level handle: FALSE is None
    stop_reparto_agent,    \* the module-level handle: FALSE is None
    aviso_urgente_agent,   \* the module-level handle of the api: FALSE is None
    ppc,               \* the position of analyze_conversation
    request,           \* the AnalyzeRequest being served
    detection,         \* what detect_process returned
    enriched_context,  \* the local enriched_context
    response,          \* what the caller receives
    calls,             \* the collaborators called by this request, in order
    previous_call,     \* << >>, or the call of evaluate made before the
                       \* RuleSet was loaded again for the current call
    payload,           \* the JSON-RPC message handle_messages is answering
    reply              \* what handle_messages returned, or what it raised

mcp_vars == <<payload, reply>>

pipeline_vars == <<impl, rules_dir, router_agent, stop_reparto_agent,
                   aviso_urgente_agent, ppc, request, detection,
                   enriched_context, response, calls, mcp_vars>>

vars == <<rules_data, customer_context, pc, rules, idx, matched_rules,
          result, rule_calls, cond_calls, pipeline_vars, previous_call>>

\* POST /messages/{session_id}: the JSON-RPC messages a client posts.
\* `arguments` is the value under params["arguments"]: no key, null, or an
\* object; `messages`, `plan` and `scoring` are the values under the keys
\* of that object
McpMethods == {"initialize", "notifications/initialized", "tools/list",
               "tools/call", "ping"}
McpTools == {"analyze_customer_case", "text_to_speech"}
McpIds == {None, Num(1)}

NoArguments ==
    [t |-> "absent", messages |-> Absent, plan |-> Absent, scoring |-> Absent]

McpArguments ==
    {NoArguments, [NoArguments EXCEPT !.t = "none"]}
    \cup {[t |-> "dict", messages |-> m, plan |-> p, scoring |-> s] :
            m \in {Absent, None, List(<< >>),
                   List(<<"quiero parar el reparto">>)},
            p \in {Absent, None},
            s \in {Absent, Num(0), Str("desconocido")}}

\* a message has params only when it is a tools/call
McpPayloads ==
    {[id |-> i, method |-> m, name |-> "", arguments |-> NoArguments] :
        i \in McpIds, m \in McpMethods \ {"tools/call"}}
    \cup {[id |-> i, method |-> "tools/call", name |-> n, arguments |-> a] :
            i \in McpIds, n \in McpTools, a \in McpArguments}

NoPayload ==
    [id |-> Absent, method |-> "", name |-> "", arguments |-> NoArguments]

\* what handle_messages gives back: a JSON-RPC response dict
\* (kind "response"), None (kind "null"), or an exception that leaves the
\* handler (kind "raised")
NoReply == [kind |-> "none", id |-> Absent, result |-> "", isError |-> FALSE]
JsonRpcResponse(msg_id, res, is_error) ==
    [kind |-> "response", id |-> msg_id, result |-> res, isError |-> is_error]
ReturnedNone == [NoReply EXCEPT !.kind = "null"]
Propagated(exception) ==
    [NoReply EXCEPT !.kind = "raised", !.result = exception]

\* args.get(key, default) on the arguments object
ArgOr(args, value, default) ==
    IF args.t = "absent" \/ value = Absent THEN default ELSE value

\* the context handle_messages prepares from the arguments
McpContext(args) ==
    [f \in Fields |->
        CASE f = "plan" -> ArgOr(args, args.plan, Str("Ahorro"))
          [] f = "scoring" -> ArgOr(args, args.scoring, Num(3))
          [] OTHER -> Absent]

\* the text handle_messages formats from an AnalyzeResponse reads three
\* keys of a non-empty recommendation
FormatKeys == {"titulo", "speech_sugerido", "siguiente_paso"}

\* the module-level state of main.py before any request
NoRequestYet ==
    /\ router_agent = FALSE
    /\ stop_reparto_agent = FALSE
    /\ aviso_urgente_agent = FALSE
    /\ ppc = "idle"
    /\ request = NoRequest
    /\ detection = NoDetection
    /\ enriched_context = EmptyDict(Fields)
    /\ response = NoResponse
    /\ calls = << >>
    /\ payload = NoPayload
    /\ reply = NoReply

\* RulesEngine.__init__: the RuleSet is loaded, evaluate has not been called
Init ==
    /\ rules_data \in RuleSets
    /\ customer_context = EmptyDict(Fields)
    /\ pc = "idle"
    /\ rules = << >>
    /\ idx = 0
    /\ matched_rules = << >>
    /\ result = EmptyDict(DecisionKeys)
    /\ rule_calls = << >>
    /\ cond_calls = << >>
    /\ impl = "backend"
    /\ rules_dir = [p \in Processes |-> << >>]
    /\ NoRequestYet
    /\ previous_call = << >>

\* a call of evaluate(customer_context)
CallEvaluate(ctx) ==
    /\ pc = "idle"
    /\ customer_context' = ctx
    /\ pc' = "gate"
    /\ rules' = << >>
    /\ idx' = 0
    /\ matched_rules' = << >>
    /\ result' = EmptyDict(DecisionKeys)
    /\ rule_calls' = << >>
    /\ cond_calls' = << >>
    /\ UNCHANGED <<rules_data, pipeline_vars, previous_call>>

\* Step 1, a required field is missing: return NEED_INFO
ReturnNeedInfo ==
    /\ pc = "gate"
    /\ LET i == FirstMissingFrom(rules_data.required_fields, customer_context, 1)
       IN  /\ i # 0
           /\ result' = NeedInfoDecision(rules_data, rules_data.required_fields[i])
    /\ pc' = "returned"
    /\ UNCHANGED <<rules_data, customer_context, rules, idx, matched_rules,
                   rule_calls, cond_calls, pipeline_vars,
                   previous_call>>

\* Step 2 entered without the required-fields check
SortRulesUngated ==
    /\ pc = "gate"
    /\ rules' = sorted(rules_data.rules)
    /\ idx' = 1
    /\ pc' = "match"
    /\ UNCHANGED <<rules_data, customer_context, matched_rules, result,
                   rule_calls, cond_calls, pipeline_vars,
                   previous_call>>

\* Step 2 sorting the list of the RuleSet in place (list.sort for sorted)
SortRulesInPlace ==
    /\ pc = "gate"
    /\ FirstMissingFrom(rules_data.required_fields, customer_context, 1) = 0
    /\ rules_data' = [rules_data EXCEPT !.rules = sorted(rules_data.rules)]
    /\ rules' = sorted(rules_data.rules)
    /\ idx' = 1
    /\ pc' = "match"
    /\ UNCHANGED <<customer_context, matched_rules, result,
                   rule_calls, cond_calls, pipeline_vars, previous_call>>

\* Step 1 passes and Step 2 sorts the rules
SortRules ==
    /\ pc = "gate"
    /\ FirstMissingFrom(rules_data.required_fields, customer_context, 1) = 0
    /\ rules' = sorted(rules_data.rules)
    /\ idx' = 1
    /\ pc' = "match"
    /\ UNCHANGED <<rules_data, customer_context, matched_rules, result,
                   rule_calls, cond_calls, pipeline_vars,
                   previous_call>>

\* the matching loop leaving at the first rule that matches
MatchRuleFirstMatchOnly ==
    /\ pc = "match"
    /\ idx <= Len(rules)
    /\ LET rule == rules[idx]
           r == _evaluate_rule(rule, customer_context)
       IN  /\ rule_calls' = Append(rule_calls, [rule |-> rule, result |-> r])
           /\ cond_calls' = cond_calls \o
                            ConditionCalls(rule.when, customer_context, 1)
           /\ matched_rules' = IF r = "True" THEN Append(matched_rules, rule)
                               ELSE matched_rules
           /\ pc' = IF r = "TypeError" THEN "raised" ELSE "match"
           /\ idx' = IF r = "True" THEN Len(rules) + 1 ELSE idx + 1
    /\ UNCHANGED <<rules_data, customer_context, rules, result,
                   pipeline_vars, previous_call>>

\* one iteration of the matching loop: _evaluate_rule on the next rule
MatchRule ==
    /\ pc = "match"
    /\ idx <= Len(rules)
    /\ LET rule == rules[idx]
           r == _evaluate_rule(rule, customer_context)
       IN  /\ rule_calls' = Append(rule_calls, [rule |-> rule, result |-> r])
           /\ cond_calls' = cond_calls \o
                            ConditionCalls(rule.when, customer_context, 1)
           /\ matched_rules' = IF r = "True" THEN Append(matched_rules, rule)
                               ELSE matched_rules
           /\ pc' = IF r = "TypeError" THEN "raised" ELSE "match"
    /\ idx' = idx + 1
    /\ UNCHANGED <<rules_data, customer_context, rules, result,
                   pipeline_vars, previous_call>>

\* no rule matched: the "no match" decision
ReturnNoMatch ==
    /\ pc = "match"
    /\ idx > Len(rules)
    /\ matched_rules = << >>
    /\ result' = NoMatchDecision
    /\ pc' = "returned"
    /\ UNCHANGED <<rules_data, customer_context, rules, idx, matched_rules,
                   rule_calls, cond_calls, pipeline_vars,
                   previous_call>>

\* the consolidated decision of the matched rules
ReturnDecision ==
    /\ pc = "match"
    /\ idx > Len(rules)
    /\ matched_rules # << >>
    /\ result' = MergeFlags(BaseDecision(matched_rules[1]), matched_rules, 1)
    /\ pc' = "returned"
    /\ UNCHANGED <<rules_data, customer_context, rules, idx, matched_rules,
                   rule_calls, cond_calls, pipeline_vars,
                   previous_call>>

\* the caller has the decision (or the exception): the engine, which keeps
\* nothing of a call but rules_data, is ready for the next call
EndCall ==
    /\ pc \in {"returned", "raised"}
    /\ pc' = "idle"
    /\ customer_context' = EmptyDict(Fields)
    /\ rules' = << >>
    /\ idx' = 0
    /\ matched_rules' = << >>
    /\ result' = EmptyDict(DecisionKeys)
    /\ rule_calls' = << >>
    /\ cond_calls' = << >>
    /\ UNCHANGED <<rules_data, pipeline_vars, previous_call>>

Next ==
    \/ \E ctx \in Contexts : CallEvaluate(ctx)
    \/ EndCall
    \/ ReturnNeedInfo
    \/ SortRules
    \/ MatchRule
    \/ ReturnNoMatch
    \/ ReturnDecision

Spec == Init /\ [][Next]_vars

---------------------------------------------------------------------------
(* evaluate called twice on one context, the RuleSet loaded again in
   between with its rules declared in another (or the same) order *)

\* the declaration orders of the rules of rs
DeclarationOrders(rs) ==
    {q \in SeqsUpTo({rs[i] : i \in DOMAIN rs}, Len(rs)) : Len(q) = Len(rs)}

\* what the caller keeps of the call that has ended
EndedCall ==
    [rules_data |-> rules_data, customer_context |-> customer_context,
     outcome |-> pc, result |-> result, matched_rules |-> matched_rules]

\* the first call has ended: a RulesEngine is constructed on the same
\* RuleSet with its rules in the order `order`, and evaluate is called on
\* the same context
CallAgain(order) ==
    /\ pc \in {"returned", "raised"}
    /\ previous_call = << >>
    /\ previous_call' = <<EndedCall>>
    /\ rules_data' = [rules_data EXCEPT !.rules = order]
    /\ pc' = "gate"
    /\ rules' = << >>
    /\ idx' = 0
    /\ matched_rules' = << >>
    /\ result' = EmptyDict(DecisionKeys)
    /\ rule_calls' = << >>
    /\ cond_calls' = << >>
    /\ UNCHANGED <<customer_context, pipeline_vars>>

\* the second call has ended: both engines are dropped
EndCalls ==
    /\ pc \in {"returned", "raised"}
    /\ previous_call # << >>
    /\ previous_call' = << >>
    /\ rules_data' = previous_call[1].rules_data
    /\ pc' = "idle"
    /\ customer_context' = EmptyDict(Fields)
    /\ rules' = << >>
    /\ idx' = 0
    /\ matched_rules' = << >>
    /\ result' = EmptyDict(DecisionKeys)
    /\ rule_calls' = << >>
    /\ cond_calls' = << >>
    /\ UNCHANGED pipeline_vars

RepeatNext ==
    \/ \E ctx \in Contexts : CallEvaluate(ctx)
    \/ ReturnNeedInfo
    \/ SortRules
    \/ MatchRule
    \/ ReturnNoMatch
    \/ ReturnDecision
    \/ \E order \in DeclarationOrders(rules_data.rules) : CallAgain(order)
    \/ EndCalls

\* the repeated call is checked on RuleSets of at most MaxRepeatRequired
\* required fields: the gate does not look at the rules
MaxRepeatRequired == 1
RepeatInit == Init /\ Len(rules_data.required_fields) <= MaxRepeatRequired

RepeatSpec == RepeatInit /\ [][RepeatNext]_vars

---------------------------------------------------------------------------
(* analyze_conversation as a state machine around the engine *)

engine_vars == <<rules_data, customer_context, pc, rules, idx, matched_rules,
                 result, rule_calls, cond_calls>>

handles == <<router_agent, stop_reparto_agent, aviso_urgente_agent>>

\* rules_data while no RulesEngine has been constructed
NoRulesData ==
    [required_fields |-> << >>, missing_info_behavior |-> MissingInfoBehavior,
     rules |-> << >>]

NoEngine ==
    /\ rules_data = NoRulesData
    /\ customer_context = EmptyDict(Fields)
    /\ pc = "idle"
    /\ rules = << >>
    /\ idx = 0
    /\ matched_rules = << >>
    /\ result = EmptyDict(DecisionKeys)
    /\ rule_calls = << >>
    /\ cond_calls = << >>

\* the server has started: the handles are None, the rules directory is
\* what was deployed
PipelineInit ==
    /\ NoEngine
    /\ impl \in {"backend", "api"}
    /\ rules_dir \in RulesDirs
    /\ NoRequestYet
    /\ previous_call = << >>

process_name == GetOr(detection, "process", Str("UNKNOWN"))
confidence == GetOr(detection, "confidence", Num(0))

\* POST /analyze arrives
AnalyzeConversation(req) ==
    /\ ppc = "idle"
    /\ request' = req
    /\ ppc' = "validate"
    /\ UNCHANGED <<impl, previous_call, mcp_vars, rules_dir,
                   handles, detection, enriched_context,
                   response, calls, engine_vars>>

\* the validation placed after the call of the classifier
RejectRequestAfterRouter ==
    /\ ppc = "validate"
    /\ \/ request.messages = << >>
       \/ request.customer_context = EmptyDict(Fields)
    /\ router_agent' = TRUE
    /\ calls' = calls \o (IF router_agent THEN << >>
                          ELSE <<"create_router_agent">>)
                      \o <<"detect_process">>
    /\ response' = HTTPException(400)
    /\ ppc' = "done"
    /\ UNCHANGED <<impl, previous_call, mcp_vars, rules_dir,
                   stop_reparto_agent, aviso_urgente_agent,
                   request, detection, enriched_context, engine_vars>>

\* Validate input: no messages or no customer context
RejectRequest ==
    /\ ppc = "validate"
    /\ \/ request.messages = << >>
       \/ request.customer_context = EmptyDict(Fields)
    /\ response' = HTTPException(400)
    /\ ppc' = "done"
    /\ UNCHANGED <<impl, previous_call, mcp_vars, rules_dir,
                   handles, request, detection,
                   enriched_context, calls, engine_vars>>

ValidRequest ==
    /\ request.messages # << >>
    /\ request.customer_context # EmptyDict(Fields)

\* get_router_agent() without the test on the handle
CallRouterConstructing(failure) ==
    /\ router_agent' = TRUE
    /\ calls' = calls \o <<"create_router_agent", "detect_process">>
                      \o failure

\* get_router_agent() and the call of detect_process; `failure` is << >>
\* or the failure met inside detect_process
CallRouter(failure) ==
    /\ router_agent' = TRUE
    /\ calls' = calls \o (IF router_agent THEN << >>
                          ELSE <<"create_router_agent">>)
                      \o <<"detect_process">> \o failure

\* detect_process has returned d: the reads of detection and the merge
Detected(d) ==
    /\ detection' = d
    /\ enriched_context' = MergeExtracted(impl, request.customer_context,
                                          ExtractedOf(d))
    /\ ppc' = "branch"
    /\ response' = response

\* Step 1, the classifier's model answers and the answer parses
DetectProcess(answer) ==
    /\ ppc = "validate"
    /\ ValidRequest
    /\ CallRouter(<< >>)
    /\ Detected(answer)
    /\ UNCHANGED <<impl, previous_call, mcp_vars, rules_dir,
                   stop_reparto_agent, aviso_urgente_agent,
                   request, engine_vars>>

\* Step 1, the answer of the classifier's model does not parse
DetectProcessParseFails ==
    /\ ppc = "validate"
    /\ ValidRequest
    /\ CallRouter(<<"classifier answer does not parse">>)
    /\ Detected(RouterFallback(impl))
    /\ UNCHANGED <<impl, previous_call, mcp_vars, rules_dir,
                   stop_reparto_agent, aviso_urgente_agent,
                   request, engine_vars>>

\* Step 1, the call of the classifier's model raises (error, timeout):
\* api/agents/router.py has the call inside its try, backend/agents/router.py
\* has self.llm.invoke before it
DetectProcessCallFails ==
    /\ ppc = "validate"
    /\ ValidRequest
    /\ CallRouter(<<"classifier call raises">>)
    /\ IF impl = "api"
       THEN Detected(RouterFallback(impl))
       ELSE /\ response' = HTTPException(500)
            /\ ppc' = "done"
            /\ UNCHANGED <<detection, enriched_context>>
    /\ UNCHANGED <<impl, previous_call, mcp_vars, rules_dir,
                   stop_reparto_agent, aviso_urgente_agent,
                   request, engine_vars>>

\* the SOCIAL branch placed after the confidence test: a SOCIAL answer of
\* low confidence gets the UNKNOWN response
ReturnSocialAfterThreshold ==
    /\ ppc = "branch"
    /\ PyEq(process_name, Str("SOCIAL"))
    /\ response' = IF confidence.n < ConfidenceThreshold
                   THEN AnalyzeResponse("UNKNOWN", "UNKNOWN", confidence,
                                        UnknownPayload, << >>,
                                        enriched_context)
                   ELSE AnalyzeResponse("SOCIAL", "SOCIAL", confidence,
                                        SocialPayload, << >>,
                                        enriched_context)
    /\ ppc' = "done"
    /\ UNCHANGED <<impl, previous_call, mcp_vars, rules_dir,
                   handles, request, detection,
                   enriched_context, calls, engine_vars>>

\* process_name == "SOCIAL"
ReturnSocial ==
    /\ ppc = "branch"
    /\ PyEq(process_name, Str("SOCIAL"))
    /\ response' = AnalyzeResponse("SOCIAL", "SOCIAL", confidence,
                                   SocialPayload, << >>, enriched_context)
    /\ ppc' = "done"
    /\ UNCHANGED <<impl, previous_call, mcp_vars, rules_dir,
                   handles, request, detection,
                   enriched_context, calls, engine_vars>>

\* the UNKNOWN response echoing the request's context and the classifier's
\* process label
ReturnUnknownEchoing ==
    /\ ppc = "branch"
    /\ ~PyEq(process_name, Str("SOCIAL"))
    /\ IsUnknown(process_name, confidence)
    /\ response' = AnalyzeResponse("UNKNOWN", process_name.s, confidence,
                                   UnknownPayload, << >>,
                                   request.customer_context)
    /\ ppc' = "done"
    /\ UNCHANGED <<impl, previous_call, mcp_vars, rules_dir,
                   handles, request, detection,
                   enriched_context, calls, engine_vars>>

\* process_name == "UNKNOWN" or confidence < 0.3
ReturnUnknown ==
    /\ ppc = "branch"
    /\ ~PyEq(process_name, Str("SOCIAL"))
    /\ IsUnknown(process_name, confidence)
    /\ response' = AnalyzeResponse("UNKNOWN", "UNKNOWN", confidence,
                                   UnknownPayload, << >>, enriched_context)
    /\ ppc' = "done"
    /\ UNCHANGED <<impl, previous_call, mcp_vars, rules_dir,
                   handles, request, detection,
                   enriched_context, calls, engine_vars>>

\* Step 2 falling back to an empty RuleSet when the process has no file
LoadEmptyRuleSet ==
    /\ ppc = "branch"
    /\ ~PyEq(process_name, Str("SOCIAL"))
    /\ ~IsUnknown(process_name, confidence)
    /\ rules_dir[process_name.s] = << >>
    /\ calls' = calls \o <<"load_rules_engine", "evaluate">>
    /\ rules_data' = NoRulesData
    /\ customer_context' = enriched_context
    /\ pc' = "gate"
    /\ ppc' = "evaluate"
    /\ UNCHANGED <<impl, previous_call, mcp_vars, rules_dir,
                   handles, request, detection,
                   enriched_context, response, rules, idx, matched_rules,
                   result, rule_calls, cond_calls>>

\* Step 2, load_rules_engine raises FileNotFoundError
RulesNotFound ==
    /\ ppc = "branch"
    /\ ~PyEq(process_name, Str("SOCIAL"))
    /\ ~IsUnknown(process_name, confidence)
    /\ rules_dir[process_name.s] = << >>
    /\ calls' = Append(calls, "load_rules_engine")
    /\ response' = HTTPException(404)
    /\ ppc' = "done"
    /\ UNCHANGED <<impl, previous_call, mcp_vars, rules_dir,
                   handles, request, detection,
                   enriched_context, engine_vars>>

\* Step 2 and the call of Step 3: the engine is constructed on the file of
\* the process and evaluate(enriched_context) is entered
LoadRulesEngine ==
    /\ ppc = "branch"
    /\ ~PyEq(process_name, Str("SOCIAL"))
    /\ ~IsUnknown(process_name, confidence)
    /\ rules_dir[process_name.s] # << >>
    /\ calls' = calls \o <<"load_rules_engine", "evaluate">>
    /\ rules_data' = rules_dir[process_name.s][1]
    /\ customer_context' = enriched_context
    /\ pc' = "gate"
    /\ ppc' = "evaluate"
    /\ UNCHANGED <<impl, previous_call, mcp_vars, rules_dir,
                   handles, request, detection,
                   enriched_context, response, rules, idx, matched_rules,
                   result, rule_calls, cond_calls>>

\* Step 3, evaluate raises and the request is dropped without a response
EvaluateRaisesUnanswered ==
    /\ ppc = "evaluate"
    /\ pc = "raised"
    /\ ppc' = "done"
    /\ UNCHANGED <<impl, previous_call, mcp_vars, rules_dir,
                   handles, request, detection,
                   enriched_context, response, calls, engine_vars>>

\* Step 3, evaluate raises: the generic except of analyze_conversation
EvaluateRaises ==
    /\ ppc = "evaluate"
    /\ pc = "raised"
    /\ response' = HTTPException(500)
    /\ ppc' = "done"
    /\ UNCHANGED <<impl, previous_call, mcp_vars, rules_dir,
                   handles, request, detection,
                   enriched_context, calls, engine_vars>>

\* rules_output.get("status", "RECOMMENDATION")
status == GetOr(result, "status", Str("RECOMMENDATION"))

\* Step 4 with the specialist fetched before the status is looked at
RespondNeedInfoAfterAgent ==
    /\ ppc = "evaluate"
    /\ pc = "returned"
    /\ PyEq(status, Str("NEED_INFO"))
    /\ stop_reparto_agent' = TRUE
    /\ calls' = calls \o (IF stop_reparto_agent THEN << >>
                          ELSE <<"create_stop_reparto_agent">>)
    /\ response' = AnalyzeResponse("NEED_INFO", process_name.s, confidence,
                                   AsPayload(result), << >>,
                                   enriched_context)
    /\ ppc' = "done"
    /\ UNCHANGED <<impl, previous_call, mcp_vars, rules_dir,
                   router_agent, aviso_urgente_agent,
                   request, detection, enriched_context, engine_vars>>

\* Step 4, status == "NEED_INFO"
RespondNeedInfo ==
    /\ ppc = "evaluate"
    /\ pc = "returned"
    /\ PyEq(status, Str("NEED_INFO"))
    /\ response' = AnalyzeResponse("NEED_INFO", process_name.s, confidence,
                                   AsPayload(result), << >>,
                                   enriched_context)
    /\ ppc' = "done"
    /\ UNCHANGED <<impl, previous_call, mcp_vars, rules_dir,
                   handles, request, detection,
                   enriched_context, calls, engine_vars>>

\* Step 5 answering a process without a specialist with a recommendation
\* all the same
SpecialistDefaulted ==
    /\ ppc = "evaluate"
    /\ pc = "returned"
    /\ ~PyEq(status, Str("NEED_INFO"))
    /\ process_name.s \notin Specialists(impl)
    /\ response' = AnalyzeResponse("RECOMMENDATION", process_name.s,
                                   confidence, AsPayload(result),
                                   <<ModelRecommendation>>, enriched_context)
    /\ ppc' = "done"
    /\ UNCHANGED <<impl, previous_call, mcp_vars, rules_dir,
                   handles, request, detection,
                   enriched_context, calls, engine_vars>>

\* Step 5, the else branch: no specialist for process_name
SpecialistNotImplemented ==
    /\ ppc = "evaluate"
    /\ pc = "returned"
    /\ ~PyEq(status, Str("NEED_INFO"))
    /\ process_name.s \notin Specialists(impl)
    /\ response' = HTTPException(501)
    /\ ppc' = "done"
    /\ UNCHANGED <<impl, previous_call, mcp_vars, rules_dir,
                   handles, request, detection,
                   enriched_context, calls, engine_vars>>

\* Step 5 is reached with a process that has a specialist
SpecialistReached ==
    /\ ppc = "evaluate"
    /\ pc = "returned"
    /\ ~PyEq(status, Str("NEED_INFO"))
    /\ process_name.s \in Specialists(impl)

\* get_stop_reparto_agent() or get_aviso_urgente_agent(), and the call of
\* generate_recommendation; `failure` is << >> or the failure met inside
\* generate_recommendation
CallSpecialist(failure) ==
    /\ IF process_name.s = "STOP_REPARTO"
       THEN /\ stop_reparto_agent' = TRUE
            /\ calls' = calls \o (IF stop_reparto_agent THEN << >>
                                  ELSE <<"create_stop_reparto_agent">>)
                              \o <<"generate_recommendation">> \o failure
            /\ UNCHANGED aviso_urgente_agent
       ELSE /\ aviso_urgente_agent' = TRUE
            /\ calls' = calls \o (IF aviso_urgente_agent THEN << >>
                                  ELSE <<"create_aviso_urgente_agent">>)
                              \o <<"generate_recommendation">> \o failure
            /\ UNCHANGED stop_reparto_agent

\* the except branch of generate_recommendation of the specialist of
\* process_name
SpecialistFallback ==
    IF process_name.s = "STOP_REPARTO"
    THEN StopRepartoFallback(impl, result)
    ELSE AvisoUrgenteFallback

\* the RECOMMENDATION response leaving the recommendation out
RecommendedWithout(recommendation) ==
    /\ response' = AnalyzeResponse("RECOMMENDATION", process_name.s,
                                   confidence, AsPayload(result),
                                   << >>, enriched_context)
    /\ ppc' = "done"

\* the RECOMMENDATION response with this recommendation
Recommended(recommendation) ==
    /\ response' = AnalyzeResponse("RECOMMENDATION", process_name.s,
                                   confidence, AsPayload(result),
                                   <<recommendation>>, enriched_context)
    /\ ppc' = "done"

\* Step 5, the specialist's model answers and the answer parses
GenerateRecommendation ==
    /\ SpecialistReached
    /\ CallSpecialist(<< >>)
    /\ Recommended(ModelRecommendation)
    /\ UNCHANGED <<impl, previous_call, mcp_vars, rules_dir,
                   router_agent, request, detection,
                   enriched_context, engine_vars>>

\* Step 5, the answer of the specialist's model does not parse
GenerateRecommendationParseFails ==
    /\ SpecialistReached
    /\ CallSpecialist(<<"specialist answer does not parse">>)
    /\ Recommended(SpecialistFallback)
    /\ UNCHANGED <<impl, previous_call, mcp_vars, rules_dir,
                   router_agent, request, detection,
                   enriched_context, engine_vars>>

\* Step 5, the call of the specialist's model raises (error, timeout): the
\* agents of api have the call inside their try, the agent of backend has
\* self.llm.invoke before it
GenerateRecommendationCallFails ==
    /\ SpecialistReached
    /\ CallSpecialist(<<"specialist call raises">>)
    /\ IF impl = "api"
       THEN Recommended(SpecialistFallback)
       ELSE /\ response' = HTTPException(500)
            /\ ppc' = "done"
    /\ UNCHANGED <<impl, previous_call, mcp_vars, rules_dir,
                   router_agent, request, detection,
                   enriched_context, engine_vars>>

\* the response has been sent: the locals of the request are gone, the
\* module-level handles stay
EndRequest ==
    /\ ppc = "done"
    /\ ppc' = "idle"
    /\ request' = NoRequest
    /\ detection' = NoDetection
    /\ enriched_context' = EmptyDict(Fields)
    /\ response' = NoResponse
    /\ calls' = << >>
    /\ rules_data' = NoRulesData
    /\ customer_context' = EmptyDict(Fields)
    /\ pc' = "idle"
    /\ rules' = << >>
    /\ idx' = 0
    /\ matched_rules' = << >>
    /\ result' = EmptyDict(DecisionKeys)
    /\ rule_calls' = << >>
    /\ cond_calls' = << >>
    /\ UNCHANGED <<impl, previous_call, mcp_vars, rules_dir,
                   handles>>

PipelineNext ==
    \/ \E req \in Requests : AnalyzeConversation(req)
    \/ RejectRequest
    \/ \E answer \in ModelAnswers : DetectProcess(answer)
    \/ DetectProcessParseFails
    \/ DetectProcessCallFails
    \/ ReturnSocial
    \/ ReturnUnknown
    \/ RulesNotFound
    \/ LoadRulesEngine
    \/ ReturnNeedInfo
    \/ SortRules
    \/ MatchRule
    \/ ReturnNoMatch
    \/ ReturnDecision
    \/ EvaluateRaises
    \/ RespondNeedInfo
    \/ SpecialistNotImplemented
    \/ GenerateRecommendation
    \/ GenerateRecommendationParseFails
    \/ GenerateRecommendationCallFails
    \/ EndRequest

PipelineSpec == PipelineInit /\ [][PipelineNext]_vars

\* the steps of a request being served: everything but the arrival of a
\* request
ServeStep ==
    \/ RejectRequest
    \/ \E answer \in ModelAnswers : DetectProcess(answer)
    \/ DetectProcessParseFails
    \/ DetectProcessCallFails
    \/ ReturnSocial
    \/ ReturnUnknown
    \/ RulesNotFound
    \/ LoadRulesEngine
    \/ ReturnNeedInfo
    \/ SortRules
    \/ MatchRule
    \/ ReturnNoMatch
    \/ ReturnDecision
    \/ EvaluateRaises
    \/ RespondNeedInfo
    \/ SpecialistNotImplemented
    \/ GenerateRecommendation
    \/ GenerateRecommendationParseFails
    \/ GenerateRecommendationCallFails
    \/ EndRequest

\* the handler is a coroutine the event loop runs to its end: its own code
\* does not block, and the calls of the collaborators return or raise (the
\* HTTP clients of api have a 30 s timeout)
PipelineLiveSpec == PipelineSpec /\ WF_vars(ServeStep)

---------------------------------------------------------------------------
(* handle_messages of api/mcp_manual.py: one JSON-RPC message at a time,
   tools/call of analyze_customer_case running analyze_conversation of
   api/index.py *)

analysis_vars == <<impl, previous_call, rules_dir, handles, ppc, request,
                   detection, enriched_context, response, calls, engine_vars>>

McpInit ==
    /\ NoEngine
    /\ impl = "api"
    /\ rules_dir \in RulesDirs
    /\ NoRequestYet
    /\ previous_call = << >>

\* no message is being handled
McpIdle == ppc = "idle" /\ payload = NoPayload

IsAnalyzeCall(p) ==
    p.method = "tools/call" /\ p.name = "analyze_customer_case"

\* method == "initialize"
Initialize(p) ==
    /\ McpIdle
    /\ p.method = "initialize"
    /\ payload' = p
    /\ reply' = JsonRpcResponse(p.id, "serverInfo", FALSE)
    /\ UNCHANGED analysis_vars

\* method == "notifications/initialized"
NotificationsInitialized(p) ==
    /\ McpIdle
    /\ p.method = "notifications/initialized"
    /\ payload' = p
    /\ reply' = ReturnedNone
    /\ UNCHANGED analysis_vars

\* method == "tools/list"
ToolsList(p) ==
    /\ McpIdle
    /\ p.method = "tools/list"
    /\ payload' = p
    /\ reply' = JsonRpcResponse(p.id, "tools", FALSE)
    /\ UNCHANGED analysis_vars

\* tools/call of analyze_customer_case with "arguments": null:
\* args.get("messages", []) raises before the try block is entered
ToolsCallArgumentsRaise(p) ==
    /\ McpIdle
    /\ IsAnalyzeCall(p)
    /\ p.arguments.t = "none"
    /\ payload' = p
    /\ reply' = Propagated("AttributeError")
    /\ UNCHANGED analysis_vars

\* the messages handed to AnalyzeRequest
McpMessages(args) == ArgOr(args, args.messages, List(<< >>))

\* tools/call of analyze_customer_case: AnalyzeRequest(...) raises a
\* ValidationError for messages that are no list, inside the try block
ToolsCallInvalidRequest(p) ==
    /\ McpIdle
    /\ IsAnalyzeCall(p)
    /\ p.arguments.t # "none"
    /\ McpMessages(p.arguments).t # "list"
    /\ payload' = p
    /\ reply' = JsonRpcResponse(p.id, "Error procesando el caso", TRUE)
    /\ UNCHANGED analysis_vars

\* tools/call of analyze_customer_case: analyze_conversation is awaited
\* on the request built from the arguments
ToolsCall(p) ==
    /\ McpIdle
    /\ IsAnalyzeCall(p)
    /\ p.arguments.t # "none"
    /\ McpMessages(p.arguments).t = "list"
    /\ payload' = p
    /\ request' = [messages |-> McpMessages(p.arguments).l,
                   customer_context |-> McpContext(p.arguments)]
    /\ ppc' = "validate"
    /\ UNCHANGED <<impl, previous_call, rules_dir, handles, detection,
                   enriched_context, response, calls, engine_vars, reply>>

\* the formatting raises: analyze_conversation raised an HTTPException, or
\* returned the JSONResponse of its internal errors (reading .process of
\* it raises), or a non-empty recommendation lacks a key the text reads
FormattingRaises(res) ==
    \/ res.kind = "error"
    \/ /\ res.recommendation # << >>
       /\ res.recommendation[1] # EmptyDict(RecommendationKeys)
       /\ \E k \in FormatKeys : ~Has(res.recommendation[1], k)

\* analyze_conversation has ended: the try block formats the text, the
\* except branch answers with isError
FormatResult ==
    /\ ppc = "done"
    /\ payload # NoPayload
    /\ reply = NoReply
    /\ reply' = IF FormattingRaises(response)
                THEN JsonRpcResponse(payload.id, "Error procesando el caso",
                                     TRUE)
                ELSE JsonRpcResponse(payload.id, "content", FALSE)
    /\ UNCHANGED <<analysis_vars, payload>>

\* the default fallback: any other method, any other tool
DefaultFallback(p) ==
    /\ McpIdle
    /\ p.method \notin {"initialize", "notifications/initialized",
                        "tools/list"}
    /\ ~IsAnalyzeCall(p)
    /\ payload' = p
    /\ reply' = JsonRpcResponse(p.id, "{}", FALSE)
    /\ UNCHANGED analysis_vars

\* the reply has been sent: the locals of the handler and of the request
\* are gone, the module-level handles stay
EndMessage ==
    /\ reply # NoReply
    /\ payload' = NoPayload
    /\ reply' = NoReply
    /\ ppc' = "idle"
    /\ request' = NoRequest
    /\ detection' = NoDetection
    /\ enriched_context' = EmptyDict(Fields)
    /\ response' = NoResponse
    /\ calls' = << >>
    /\ rules_data' = NoRulesData
    /\ customer_context' = EmptyDict(Fields)
    /\ pc' = "idle"
    /\ rules' = << >>
    /\ idx' = 0
    /\ matched_rules' = << >>
    /\ result' = EmptyDict(DecisionKeys)
    /\ rule_calls' = << >>
    /\ cond_calls' = << >>
    /\ UNCHANGED <<impl, previous_call, rules_dir, handles>>

McpNext ==
    \/ \E p \in McpPayloads : Initialize(p)
    \/ \E p \in McpPayloads : NotificationsInitialized(p)
    \/ \E p \in McpPayloads : ToolsList(p)
    \/ \E p \in McpPayloads : ToolsCallArgumentsRaise(p)
    \/ \E p \in McpPayloads : ToolsCallInvalidRequest(p)
    \/ \E p \in McpPayloads : ToolsCall(p)
    \/ \E p \in McpPayloads : DefaultFallback(p)
    \/ RejectRequest
    \/ \E answer \in ModelAnswers : DetectProcess(answer)
    \/ DetectProcessParseFails
    \/ DetectProcessCallFails
    \/ ReturnSocial
    \/ ReturnUnknown
    \/ RulesNotFound
    \/ LoadRulesEngine
    \/ ReturnNeedInfo
    \/ SortRules
    \/ MatchRule
    \/ ReturnNoMatch
    \/ ReturnDecision
    \/ EvaluateRaises
    \/ RespondNeedInfo
    \/ SpecialistNotImplemented
    \/ GenerateRecommendation
    \/ GenerateRecommendationParseFails
    \/ GenerateRecommendationCallFails
    \/ FormatResult
    \/ EndMessage

McpSpec == McpInit /\ [][McpNext]_vars

---------------------------------------------------------------------------
(* Vocabulary of the properties *)

\* a value is missing: null (or no key), "", "null", "desconocido"
Missing(v) ==
    \/ v.t \in {"absent", "none"}
    \/ (v.t = "str" /\ v.s \in {"", "null", "desconocido"})

RequiredFields == rules_data.required_fields

\* positions of required_fields whose field is missing in the context
MissingRequired ==
    {i \in DOMAIN RequiredFields : Missing(customer_context[RequiredFields[i]])}

FirstMissingRequired ==
    CHOOSE i \in MissingRequired : \A j \in MissingRequired : i <= j

\* the keys a returned dict holds
KeysOf(d) == {k \in DOMAIN d : d[k] # Absent}

\* the gate of the current call is behind
PastGate == pc \in {"match", "returned", "raised"}

\* evaluate has ended, with a decision or with an exception
Ended == pc \in {"returned", "raised"}

\* positions of the rules of the RuleSet whose `when` the context satisfies
Matching ==
    {i \in DOMAIN rules_data.rules :
        _evaluate_rule(rules_data.rules[i], customer_context) = "True"}

PriorityOf(i) ==
    LET p == rules_data.rules[i].priority IN IF p.t = "num" THEN p.n ELSE 0

\* i is ahead of j: higher priority, or the same priority and declared first
Ahead(i, j) ==
    \/ PriorityOf(i) > PriorityOf(j)
    \/ (PriorityOf(i) = PriorityOf(j) /\ i < j)

BaseKeys == {"decision", "stop_allowed", "allowed_actions", "reason"}

AuxiliaryKeys == ThenKeys \ BaseKeys

---------------------------------------------------------------------------
(* C1 *)

\* C1: whenever a required field is missing (null, "", "null",
\* "desconocido"), evaluate returns NEED_INFO, missing_field is the first
\* missing field in required_fields order whatever else is missing, and
\* question_data is the question configured for that field.
C1_FirstMissingField ==
    (PastGate /\ MissingRequired # {}) =>
        LET f == RequiredFields[FirstMissingRequired]
            q == rules_data.missing_info_behavior.questions[f]
        IN  /\ pc = "returned"
            /\ result["status"] = Str("NEED_INFO")
            /\ result["missing_field"] = Str(f)
            /\ result["question_data"] = (IF q = Absent THEN None ELSE q)

\* two required fields are missing and the first declared one is reported
C1_Witness ==
    /\ pc = "returned"
    /\ Cardinality(MissingRequired) >= 2
    /\ result["missing_field"] = Str(RequiredFields[1])
    /\ result["question_data"].t = "str"

---------------------------------------------------------------------------
(* C2 *)

NeedInfoKeys == {"status", "missing_field", "behavior", "question_data"}

\* C2: the missing-field gate runs before any rule matching: with a
\* required field missing no rule and no condition is ever evaluated, and
\* a NEED_INFO decision holds the keys status, missing_field, behavior,
\* question_data and no other, also when a rule's `when` matches.
C2_GateBeforeMatching ==
    /\ (pc # "idle" /\ MissingRequired # {}) =>
            (rule_calls = << >> /\ cond_calls = << >> /\ matched_rules = << >>)
    /\ (pc = "gate") => (rule_calls = << >> /\ cond_calls = << >>)
    /\ (result["status"] = Str("NEED_INFO")) =>
            (rule_calls = << >> /\ KeysOf(result) = NeedInfoKeys)

\* NEED_INFO was returned although a rule of the RuleSet matches the context
C2_Witness ==
    /\ pc = "returned"
    /\ result["status"] = Str("NEED_INFO")
    /\ Matching # {}

---------------------------------------------------------------------------
(* C3 *)

\* C3: when all required fields are present and no rule's `when` is
\* satisfied, evaluate returns exactly status=RECOMMENDATION,
\* decision="no_match", stop_allowed=null, allowed_actions=[],
\* reason="no_rules_matched" and no auxiliary flag: every call that ends
\* with no rule matched ends by returning that decision.
C3_NoMatchDecision ==
    (Ended /\ MissingRequired = {} /\ Matching = {}) =>
        /\ pc = "returned"
        /\ KeysOf(result) = {"status"} \cup BaseKeys
        /\ result["status"] = Str("RECOMMENDATION")
        /\ result["decision"] = Str("no_match")
        /\ result["stop_allowed"] = None
        /\ result["allowed_actions"] = List(<< >>)
        /\ result["reason"] = Str("no_rules_matched")

---------------------------------------------------------------------------
(* C4 *)

\* the matching rule that is ahead of every other matching rule
PrimaryIndex ==
    CHOOSE i \in Matching : \A j \in Matching \ {i} : Ahead(i, j)

\* C4: when two or more rules match, the base fields of the returned
\* decision (decision, stop_allowed, allowed_actions, reason) are those of
\* the matching rule of highest priority, the first declared one among
\* matching rules of equal priority.
C4_PrimaryByPriority ==
    (pc = "returned" /\ result["status"] = Str("RECOMMENDATION")
        /\ Cardinality(Matching) >= 2) =>
        LET r == rules_data.rules[PrimaryIndex]
        IN  /\ \A k \in BaseKeys : r.then[k] # Absent => result[k] = r.then[k]
            /\ r.then["decision"] = Absent => result["decision"] = Str("unknown")
            /\ r.then["stop_allowed"] = Absent => result["stop_allowed"] = None
            /\ r.then["allowed_actions"] = Absent =>
                    result["allowed_actions"] = List(<< >>)
            /\ r.then["reason"] = Absent =>
                    result["reason"] =
                        Str("rule_" \o (IF r.id.t = "str" THEN r.id.s ELSE "unknown"))

\* two matching rules of equal priority and different decisions: the one
\* declared first gave the decision
C4_Witness ==
    /\ pc = "returned"
    /\ \E i, j \in Matching :
          /\ i < j
          /\ PriorityOf(i) = PriorityOf(j)
          /\ rules_data.rules[i].then["decision"] # rules_data.rules[j].then["decision"]
          /\ rules_data.rules[i].then["decision"] # Absent
          /\ result["decision"] = rules_data.rules[i].then["decision"]

---------------------------------------------------------------------------
(* C5 *)

\* a `then` in the format of the RuleSet source: decision, stop_allowed and
\* allowed_actions are there, reason and auxiliary keys may be
FullOutcome(then) ==
    {"decision", "stop_allowed", "allowed_actions"} \subseteq KeysOf(then)

\* C5: for a context that has all required fields and satisfies the `when`
\* of exactly one rule, evaluate returns that rule's `then` verbatim: every
\* key of `then` is in the decision with the same value, and the decision
\* adds nothing but status=RECOMMENDATION and, when `then` has no reason,
\* reason = "rule_" + id.  Stated for the decisions evaluate returns and
\* for rules whose `then` is a full outcome.
C5_ThenVerbatim ==
    (pc = "returned" /\ MissingRequired = {} /\ Cardinality(Matching) = 1
        /\ FullOutcome(rules_data.rules[CHOOSE i \in Matching : TRUE].then)) =>
        LET r == rules_data.rules[CHOOSE i \in Matching : TRUE]
        IN  /\ \A k \in ThenKeys : r.then[k] # Absent => result[k] = r.then[k]
            /\ KeysOf(result) = KeysOf(r.then) \cup {"status", "reason"}
            /\ result["status"] = Str("RECOMMENDATION")
            /\ r.then["reason"] = Absent =>
                    result["reason"] =
                        Str("rule_" \o (IF r.id.t = "str" THEN r.id.s ELSE "unknown"))

---------------------------------------------------------------------------
(* C6 *)

\* the matching rules that declare the key k in their `then`
Declaring(k) == {i \in Matching : rules_data.rules[i].then[k] # Absent}

\* the declaring rule every other declaring rule is ahead of
LowestDeclaring(k) ==
    CHOOSE i \in Declaring(k) : \A j \in Declaring(k) \ {i} : Ahead(j, i)

\* C6: when several matched rules declare the same auxiliary flag with
\* different values, the decision holds the value of the lowest-priority
\* matched rule that declares it, while the base fields are those of the
\* highest-priority matched rule.
C6_LowestPriorityFlag ==
    \A k \in AuxiliaryKeys :
        (pc = "returned" /\ result["status"] = Str("RECOMMENDATION")
            /\ \E i, j \in Declaring(k) :
                  rules_data.rules[i].then[k] # rules_data.rules[j].then[k]) =>
            /\ result[k] = rules_data.rules[LowestDeclaring(k)].then[k]
            /\ \A b \in BaseKeys :
                  rules_data.rules[PrimaryIndex].then[b] # Absent =>
                      result[b] = rules_data.rules[PrimaryIndex].then[b]

---------------------------------------------------------------------------
(* C7 *)

\* C7: every key beyond decision, stop_allowed, allowed_actions and reason
\* that the `then` of a matched rule holds is in the returned decision,
\* whatever its name.
C7_AnyAuxiliaryKeyMerged ==
    (pc = "returned" /\ result["status"] = Str("RECOMMENDATION")) =>
        \A k \in AuxiliaryKeys : Declaring(k) # {} => result[k] # Absent

---------------------------------------------------------------------------
(* C8 *)

\* C8: _evaluate_condition returns false for every condition, literal or
\* range, with or without bounds, when the context value is missing (null,
\* "", "null", "desconocido").
C8_MissingValueIsFalse ==
    \A c \in DOMAIN cond_calls :
        Missing(cond_calls[c].context_value) => cond_calls[c].result = "False"

---------------------------------------------------------------------------
(* C9 *)

\* C9: for a numeric value v and a range condition, _evaluate_condition
\* returns true iff (min absent or v >= min) and (max absent or v <= max):
\* both bounds are inclusive; a range with neither bound passes for every
\* non-missing value.
C9_InclusiveRange ==
    \A c \in DOMAIN cond_calls :
        LET call == cond_calls[c]
            cond == call.condition
            v == call.context_value
        IN  /\ (cond.isdict /\ v.t = "num") =>
                 /\ call.result \in {"True", "False"}
                 /\ call.result = "True" <=>
                       /\ (cond.min = Absent \/ v.n >= cond.min.n)
                       /\ (cond.max = Absent \/ v.n <= cond.max.n)
            /\ (cond.isdict /\ cond.min = Absent /\ cond.max = Absent
                    /\ ~Missing(v)) => call.result = "True"

\* a value equal to the lower bound passed, one equal to the upper bound
\* passed, and a range without bounds passed
C9_Witness ==
    /\ \E c \in DOMAIN cond_calls :
          /\ cond_calls[c].condition.min.t = "num"
          /\ cond_calls[c].context_value.t = "num"
          /\ cond_calls[c].context_value.n = cond_calls[c].condition.min.n
          /\ cond_calls[c].result = "True"
    /\ \E c \in DOMAIN cond_calls :
          /\ cond_calls[c].condition.isdict
          /\ cond_calls[c].condition.min = Absent
          /\ cond_calls[c].condition.max = Absent
          /\ cond_calls[c].result = "True"

---------------------------------------------------------------------------
(* C10 *)

\* the fields the `when` of a rule names
WhenFields(rule) == {rule.when[k].field : k \in DOMAIN rule.when}

\* C10: _evaluate_rule returns true iff every (field, condition) of `when`
\* evaluates to true against context.get(field): one failing condition or a
\* constrained field that the context lacks makes the rule not match, the
\* fields `when` does not name never change the result, and an empty `when`
\* matches.
C10_RuleIsConjunction ==
    \A c \in DOMAIN rule_calls :
        LET rule == rule_calls[c].rule
            res == rule_calls[c].result
        IN  /\ res = "True" <=>
                  \A k \in DOMAIN rule.when :
                      _evaluate_condition(
                          rule.when[k].condition,
                          IF customer_context[rule.when[k].field] = Absent
                          THEN None
                          ELSE customer_context[rule.when[k].field]) = "True"
            /\ (\E f \in WhenFields(rule) : customer_context[f] = Absent) =>
                  res # "True"
            /\ rule.when = << >> => res = "True"
            /\ \A f \in Fields \ WhenFields(rule) :
                  \A v \in ContextValues \cup MotivoValues :
                      _evaluate_rule(rule, [customer_context EXCEPT ![f] = v]) = res

\* a rule with two conditions was evaluated: its first condition held, its
\* second did not, and the rule did not match
C10_Witness ==
    \E c \in DOMAIN rule_calls :
        LET rule == rule_calls[c].rule
        IN  /\ Len(rule.when) = 2
            /\ _evaluate_condition(rule.when[1].condition,
                                   Get(customer_context, rule.when[1].field)) = "True"
            /\ _evaluate_condition(rule.when[2].condition,
                                   Get(customer_context, rule.when[2].field)) = "False"
            /\ rule_calls[c].result = "False"

---------------------------------------------------------------------------
(* C11 *)

\* C11: evaluate never raises for a well-formed RuleSet and a context of
\* strings, numbers, booleans and null, a string in a range-constrained
\* field included: no call of evaluate ends by raising, and every call that
\* returns returns a Decision whose status is NEED_INFO or RECOMMENDATION.
C11_EvaluateNeverRaises ==
    /\ pc # "raised"
    /\ pc = "returned" =>
          result["status"] \in {Str("NEED_INFO"), Str("RECOMMENDATION")}

---------------------------------------------------------------------------
(* C12 *)

\* the merge of this request has run
Merged == detection # NoDetection

StaticContext == request.customer_context
Extracted == ExtractedOf(detection)

\* C12: the enrichment merge never overwrites a static context field whose
\* value is non-missing: for every field with a non-missing static value
\* the enriched context holds the static value, whatever the classifier
\* extracted for that field.
C12_StaticValueKept ==
    Merged =>
        \A f \in Fields :
            ~Missing(StaticContext[f]) =>
                enriched_context[f] = StaticContext[f]

\* the classifier extracted another plan than the static one, and the
\* static one is in the enriched context
C12_Witness ==
    /\ Merged
    /\ StaticContext["plan"] = Str("Ahorro")
    /\ Extracted["plan"] = Str("Estandar")
    /\ enriched_context["plan"] = Str("Ahorro")

---------------------------------------------------------------------------
(* C13 *)

\* an extracted value is available: the key is there, not null, not empty
Available(v) == v.t \notin {"absent", "none"} /\ v # Str("")

\* C13: the enrichment merge always fills a missing static field when an
\* extracted value is available: for every field whose static value is
\* missing (absent, null, "", "null" or "desconocido") and whose extracted
\* value is non-null and non-empty (false and 0 included), the enriched
\* context holds the extracted value.
C13_MissingFieldFilled ==
    Merged =>
        \A f \in Fields :
            (Missing(StaticContext[f]) /\ Available(Extracted[f])) =>
                enriched_context[f] = Extracted[f]

---------------------------------------------------------------------------
(* C14 *)

\* the collaborator call `name` was made by this request
Called(name) == \E i \in DOMAIN calls : calls[i] = name

\* what the classifier answered for this request
ClassifiedProcess == detection.process.s
ClassifiedConfidence == detection.confidence.n

\* the request has its response
Responded == ppc = "done"

\* C14: for a classified process other than SOCIAL, a confidence strictly
\* below 0.30 ends the request in terminal state UNKNOWN and no RuleSet is
\* loaded or evaluated at any point of the request; a confidence of exactly
\* 0.30 with a process other than SOCIAL and UNKNOWN goes on to the loading
\* of the RuleSet and, the RuleSet loaded, to its evaluation, and never
\* ends in UNKNOWN.
C14_ThresholdIsExclusive ==
    Merged =>
        /\ (ClassifiedProcess # "SOCIAL" /\ ClassifiedConfidence < 30) =>
              /\ ~Called("load_rules_engine")
              /\ ~Called("evaluate")
              /\ Responded =>
                    (response.kind = "ok" /\ response.status = "UNKNOWN")
        /\ (ClassifiedProcess \notin {"SOCIAL", "UNKNOWN"}
              /\ ClassifiedConfidence = 30 /\ Responded) =>
              /\ Called("load_rules_engine")
              /\ rules_dir[ClassifiedProcess] # << >> => Called("evaluate")
              /\ response.status # "UNKNOWN"

\* a STOP_REPARTO request classified with confidence 0.30 has had its
\* RuleSet evaluated
C14_Witness ==
    /\ Responded
    /\ ClassifiedProcess = "STOP_REPARTO"
    /\ ClassifiedConfidence = 30
    /\ Called("evaluate")
    /\ response.status \in {"NEED_INFO", "RECOMMENDATION"}

---------------------------------------------------------------------------
(* C15 *)

\* the rules engine was loaded or called by this request
EngineInvoked == Called("load_rules_engine") \/ Called("evaluate")

\* a specialist was constructed or called by this request
SpecialistInvoked ==
    \/ Called("create_stop_reparto_agent")
    \/ Called("create_aviso_urgente_agent")
    \/ Called("generate_recommendation")

\* C15: whenever the classifier returns process SOCIAL, whatever the
\* confidence (below 0.30 too), the request ends in terminal state SOCIAL
\* with the fixed informational decision payload, the enriched context and
\* no recommendation, and neither the rules engine nor a specialist is
\* invoked in that request.
C15_SocialEndsSocial ==
    (Merged /\ ClassifiedProcess = "SOCIAL") =>
        /\ ~EngineInvoked
        /\ ~SpecialistInvoked
        /\ pc = "idle"
        /\ Responded =>
              /\ response.kind = "ok"
              /\ response.status = "SOCIAL"
              /\ response.process = "SOCIAL"
              /\ response.confidence = detection.confidence
              /\ KeysOf(response.rules_decision) = {"status", "message"}
              /\ response.rules_decision["status"] = Str("SOCIAL")
              /\ response.rules_decision["message"] =
                    Str("Conversacion social detectada")
              /\ response.recommendation = << >>
              /\ response.enriched_context = enriched_context

\* a SOCIAL answer of confidence 0.25 whose extraction filled the plan has
\* been answered
C15_Witness ==
    /\ Responded
    /\ ClassifiedProcess = "SOCIAL"
    /\ ClassifiedConfidence = 25
    /\ response.status = "SOCIAL"
    /\ StaticContext["plan"] = Str("")
    /\ response.enriched_context["plan"] = Str("Estandar")

---------------------------------------------------------------------------
(* C16 *)

\* the call of evaluate made by this request returned status NEED_INFO
EngineAskedForInfo ==
    /\ Called("evaluate")
    /\ pc = "returned"
    /\ result["status"] = Str("NEED_INFO")

\* C16: whenever evaluate returns status NEED_INFO, the request ends in
\* terminal state NEED_INFO, the response carries the engine's decision
\* unchanged as rules_decision and a null recommendation, and no specialist
\* is invoked or constructed during the request.
C16_NeedInfoEndsNeedInfo ==
    EngineAskedForInfo =>
        /\ ~SpecialistInvoked
        /\ Responded =>
              /\ response.kind = "ok"
              /\ response.status = "NEED_INFO"
              /\ KeysOf(response.rules_decision) = KeysOf(result)
              /\ \A k \in KeysOf(result) :
                    response.rules_decision[k] = result[k]
              /\ response.recommendation = << >>

\* a STOP_REPARTO request without a plan has been answered with the
\* engine's question
C16_Witness ==
    /\ Responded
    /\ EngineAskedForInfo
    /\ ClassifiedProcess = "STOP_REPARTO"
    /\ response.status = "NEED_INFO"
    /\ response.rules_decision["missing_field"] = Str("plan")
    /\ response.rules_decision["question_data"] =
          Str("Que plan tiene el cliente?")

---------------------------------------------------------------------------
(* C17 *)

\* the classifier named a business process with sufficient confidence
Classified ==
    /\ Merged
    /\ ClassifiedProcess \notin {"SOCIAL", "UNKNOWN"}
    /\ ClassifiedConfidence >= 30

\* C17: when the classified process (not SOCIAL/UNKNOWN, confidence >=
\* 0.30) has no RuleSet source, the request fails with a not-found error
\* (HTTP 404): no RuleSet, default or empty, is evaluated, no decision is
\* returned and no specialist is invoked.
C17_NoRuleSetIsNotFound ==
    (Classified /\ rules_dir[ClassifiedProcess] = << >>) =>
        /\ ~Called("evaluate")
        /\ pc = "idle"
        /\ ~SpecialistInvoked
        /\ Responded =>
              /\ response.kind = "error"
              /\ response.code = 404
              /\ KeysOf(response.rules_decision) = {}

\* a CAMBIO_PLAN request, a process without a rules file, got the 404
C17_Witness ==
    /\ Responded
    /\ Classified
    /\ ClassifiedProcess = "CAMBIO_PLAN"
    /\ rules_dir["CAMBIO_PLAN"] = << >>
    /\ Called("load_rules_engine")
    /\ response.code = 404

---------------------------------------------------------------------------
(* C18 *)

\* the classified business process has no specialist in this deployment
Unserved == Classified /\ ClassifiedProcess \notin Specialists(impl)

\* C18: every request whose classified process is neither SOCIAL nor
\* UNKNOWN, has confidence >= 0.30 and has no registered specialist ends in
\* a configuration error surfaced to the caller; it never ends in a normal
\* terminal state (NEED_INFO or RECOMMENDATION).
C18_UnservedEndsInError ==
    (Unserved /\ Responded) =>
        /\ response.kind = "error"
        /\ response.status \notin {"NEED_INFO", "RECOMMENDATION"}

\* C18 as the code has it: such a request never reaches a specialist and
\* never ends in RECOMMENDATION; it ends in NEED_INFO when the rules engine
\* returns NEED_INFO, and otherwise in an error surfaced to the caller:
\* 404 when the process has no RuleSet, 501 when evaluate returned a
\* RECOMMENDATION decision, 500 when evaluate raised.
C18_UnservedNeverRecommended ==
    Unserved =>
        /\ ~SpecialistInvoked
        /\ Responded =>
              /\ response.status # "RECOMMENDATION"
              /\ response.recommendation = << >>
              /\ IF EngineAskedForInfo
                 THEN response.kind = "ok" /\ response.status = "NEED_INFO"
                 ELSE /\ response.kind = "error"
                      /\ response.code =
                            IF rules_dir[ClassifiedProcess] = << >> THEN 404
                            ELSE IF pc = "raised" THEN 500
                            ELSE 501

\* a process with a RuleSet and no specialist got the 501 after its rules
\* were evaluated to a RECOMMENDATION decision
C18_Witness ==
    /\ Unserved
    /\ Responded
    /\ pc = "returned"
    /\ result["status"] = Str("RECOMMENDATION")
    /\ response.kind = "error"
    /\ response.code = 501

---------------------------------------------------------------------------
(* C19 *)

\* the specialist called by this request failed: its model call raised
\* (error, timeout) or its answer did not parse
SpecialistFailed ==
    \/ Called("specialist call raises")
    \/ Called("specialist answer does not parse")

\* C19: when the specialist fails at any point (the model call errors or
\* times out, or its output cannot be parsed), the request is not aborted:
\* generate_recommendation returns the fixed fallback payload and the
\* request ends in terminal state RECOMMENDATION with the rules decision,
\* that fallback recommendation and the enriched context, never in an
\* error response.
C19_SpecialistFailureIsFallback ==
    (SpecialistFailed /\ Responded) =>
        /\ response.kind = "ok"
        /\ response.status = "RECOMMENDATION"
        /\ \A k \in KeysOf(result) : response.rules_decision[k] = result[k]
        /\ response.recommendation = <<SpecialistFallback>>
        /\ response.enriched_context = enriched_context

---------------------------------------------------------------------------
(* C20 *)

\* the classifier called by this request failed: its model call raised
\* (error, timeout) or its answer did not parse
ClassifierFailed ==
    \/ Called("classifier call raises")
    \/ Called("classifier answer does not parse")

\* C20: when the classifier fails internally (the model call errors or
\* times out, or its output cannot be parsed), detect_process does not
\* propagate the failure but returns {process: "UNKNOWN", confidence: 0,
\* extracted_data: {}}, so the request ends in terminal state UNKNOWN with
\* the enriched context equal to the static context.
C20_ClassifierFailureIsUnknown ==
    ClassifierFailed =>
        /\ detection.process = Str("UNKNOWN")
        /\ detection.confidence = Num(0)
        /\ detection.extracted_data = <<EmptyDict(Fields)>>
        /\ ~EngineInvoked
        /\ Responded =>
              /\ response.kind = "ok"
              /\ response.status = "UNKNOWN"
              /\ response.enriched_context = StaticContext

---------------------------------------------------------------------------
(* C21 *)

\* the keys every recommendation payload is to have
MinimumRecommendationKeys ==
    {"titulo", "speech_sugerido", "siguiente_paso", "gestion_finalizada"}

\* C21: every recommendation payload a specialist returns, the fixed
\* fallback payload of each specialist included, contains at least the keys
\* titulo, speech_sugerido, siguiente_paso and gestion_finalizada.
C21_RecommendationHasMinimumKeys ==
    (Responded /\ response.recommendation # << >>) =>
        MinimumRecommendationKeys \subseteq KeysOf(response.recommendation[1])

---------------------------------------------------------------------------
(* C22 *)

\* a request is being served and its message list or its customer context
\* is empty
BadInput ==
    /\ ppc # "idle"
    /\ \/ Len(request.messages) = 0
       \/ KeysOf(request.customer_context) = {}

\* C22: a request whose message list is empty or whose customer context is
\* empty is failed with a bad-input error (HTTP 400) before any other step:
\* the classifier, the rules engine and the specialist are never invoked
\* for it.
C22_BadInputIsRejectedFirst ==
    BadInput =>
        /\ calls = << >>
        /\ ~Merged
        /\ pc = "idle"
        /\ Responded => (response.kind = "error" /\ response.code = 400)

\* a request with messages and an empty customer context got the 400
C22_Witness ==
    /\ Responded
    /\ Len(request.messages) > 0
    /\ KeysOf(request.customer_context) = {}
    /\ response.kind = "error"
    /\ response.code = 400

---------------------------------------------------------------------------
(* C23 *)

TerminalStates == {"SOCIAL", "UNKNOWN", "NEED_INFO", "RECOMMENDATION"}

\* a response of one of the four terminal states with all its fields
WellFormedResponse ==
    /\ response.kind = "ok"
    /\ response.status \in TerminalStates
    /\ response.process \in Processes
    /\ response.confidence.t = "num"
    /\ response.rules_decision["status"] = Str(response.status)
    /\ response.enriched_context = enriched_context

\* an explicit error: the code tells bad input (400), missing RuleSet (404)
\* and unimplemented process (501) apart, 500 is the internal error
ExplicitError ==
    /\ response.kind = "error"
    /\ response.code \in {400, 404, 500, 501}
    /\ response.code = 400 <=> BadInput
    /\ response.code = 404 <=>
          (Classified /\ rules_dir[ClassifiedProcess] = << >>)
    /\ response.code = 501 <=>
          (Unserved /\ pc = "returned"
              /\ result["status"] = Str("RECOMMENDATION"))

\* C23: every analysis request, under every combination of classifier and
\* specialist behaviour (success or failure), eventually produces exactly
\* one outcome: a well-formed response of one of the four terminal states
\* SOCIAL, UNKNOWN, NEED_INFO, RECOMMENDATION, or an explicit error, the
\* three structural failures (bad input, missing config, unimplemented
\* process) carrying pairwise distinct codes.
C23_ExactlyOneOutcome ==
    /\ (ppc = "validate") ~> Responded
    /\ [](Responded => (WellFormedResponse \/ ExplicitError))
    /\ [](~Responded => response = NoResponse)
    /\ [][Responded => (response' = response \/ ppc' = "idle")]_vars

\* a request whose specialist failed has its RECOMMENDATION response
C23_Witness ==
    /\ Responded
    /\ SpecialistFailed
    /\ WellFormedResponse
    /\ response.status = "RECOMMENDATION"

---------------------------------------------------------------------------
(* C24 *)

\* the required fields the static context lacks and the classifier
\* extracted a value for
ExtractedRequired ==
    {f \in {RequiredFields[i] : i \in DOMAIN RequiredFields} :
        Missing(StaticContext[f]) /\ Available(Extracted[f])}

\* C24: the rules engine is evaluated on the enriched context, after the
\* enrichment merge: a required field that is missing in the static context
\* but for which the classifier extracted a value does not cause NEED_INFO
\* for that field, and the rules are matched against the extracted value.
C24_EvaluatedOnEnrichedContext ==
    Called("evaluate") =>
        /\ Merged
        /\ customer_context = enriched_context
        /\ \A f \in ExtractedRequired :
              /\ customer_context[f] = Extracted[f]
              /\ ~(pc = "returned" /\ result["status"] = Str("NEED_INFO")
                      /\ result["missing_field"] = Str(f))

---------------------------------------------------------------------------
(* C25 *)

\* the second of two calls on one context has ended
BothCallsEnded == previous_call # << >> /\ Ended

FirstCall == previous_call[1]

\* the rules a call matched, as a set
MatchedSet(matched) == {matched[i] : i \in DOMAIN matched}

\* C25: evaluate is deterministic and its matching step is
\* order-independent: two evaluations of the same context against the same
\* RuleSet end the same way and return the same Decision, and for every
\* permutation of the declaration order of the rules the call ends the
\* same way, with the same status and the same set of matched rules (only
\* the choice of the primary rule and the flag values may differ).
C25_DeterministicOrderIndependent ==
    BothCallsEnded =>
        /\ customer_context = FirstCall.customer_context
        /\ pc = FirstCall.outcome
        /\ pc = "returned" =>
              /\ result["status"] = FirstCall.result["status"]
              /\ MatchedSet(matched_rules) =
                    MatchedSet(FirstCall.matched_rules)
        /\ rules_data = FirstCall.rules_data =>
              /\ result = FirstCall.result
              /\ matched_rules = FirstCall.matched_rules

\* two rules of equal priority both matched, in either declaration order,
\* and the order chose another primary rule
C25_Witness ==
    /\ BothCallsEnded
    /\ pc = "returned"
    /\ rules_data.rules # FirstCall.rules_data.rules
    /\ Cardinality(MatchedSet(matched_rules)) = 2
    /\ result["decision"] # FirstCall.result["decision"]

---------------------------------------------------------------------------
(* C26 *)

\* evaluate is running: entered and not yet returned or raised
Evaluating == pc \in {"gate", "match"}

\* C26: evaluate leaves the loaded RuleSet unchanged (rules_data, the
\* declaration order of its rules and every rule's when/then included) and
\* leaves the customer context it was given unchanged, whatever the outcome
\* (NEED_INFO, no_match, matched): no step of a running call changes
\* either.
C26_EvaluateMutatesNothing ==
    [][Evaluating => /\ rules_data' = rules_data
                     /\ customer_context' = customer_context]_vars

\* a call on a RuleSet whose rules are not declared in priority order has
\* returned a matched decision, and the RuleSet still has its order
C26_Witness ==
    /\ pc = "returned"
    /\ matched_rules # << >>
    /\ Len(rules) = 2
    /\ rules # rules_data.rules
    /\ PriorityOf(1) < PriorityOf(2)

---------------------------------------------------------------------------
(* C27 *)

\* how many times this request has constructed the collaborator
Constructions(log, create) ==
    Cardinality({i \in DOMAIN log : log[i] = create})

\* a step constructs the collaborator of `create` only while its handle is
\* null, once, and leaves the handle non-null; a non-null handle stays
ConstructedOnce(handle, handle_after, create) ==
    /\ handle => handle_after
    /\ Constructions(calls', create) > Constructions(calls, create) =>
          /\ ~handle
          /\ handle_after
          /\ Constructions(calls', create) = Constructions(calls, create) + 1

\* C27: over any number of analysis requests each lazily-initialized
\* collaborator handle (router agent, STOP_REPARTO agent, AVISO_URGENTE
\* agent) is constructed at most once per process: once a handle is
\* non-null, get_*_agent returns that instance and never constructs
\* another.  A handler has no suspension point, so the event loop serves
\* concurrent requests one after the other.
C27_HandlesConstructedOnce ==
    [][/\ ConstructedOnce(router_agent, router_agent',
                          "create_router_agent")
       /\ ConstructedOnce(stop_reparto_agent, stop_reparto_agent',
                          "create_stop_reparto_agent")
       /\ ConstructedOnce(aviso_urgente_agent, aviso_urgente_agent',
                          "create_aviso_urgente_agent")]_vars

\* a later request has called the classifier and the STOP_REPARTO
\* specialist through the handles an earlier request constructed
C27_Witness ==
    /\ Responded
    /\ Called("detect_process")
    /\ Called("generate_recommendation")
    /\ ClassifiedProcess = "STOP_REPARTO"
    /\ ~Called("create_router_agent")
    /\ ~Called("create_stop_reparto_agent")

---------------------------------------------------------------------------
(* C28 *)

\* the position of the call `name` in the calls of this request
PositionOf(name) == CHOOSE i \in DOMAIN calls : calls[i] = name

\* C28: in every successful response the status is one of SOCIAL, UNKNOWN,
\* NEED_INFO, RECOMMENDATION and the recommendation is non-null if and only
\* if the status is RECOMMENDATION; the specialist is invoked at most once
\* per request, and only after the classifier call and the rule evaluation
\* of the same request.
C28_RecommendationIffRecommended ==
    /\ (Responded /\ response.kind = "ok") =>
          /\ response.status \in
                {"SOCIAL", "UNKNOWN", "NEED_INFO", "RECOMMENDATION"}
          /\ response.recommendation # << >> <=>
                response.status = "RECOMMENDATION"
    /\ Constructions(calls, "generate_recommendation") <= 1
    /\ Called("generate_recommendation") =>
          /\ Called("detect_process")
          /\ Called("evaluate")
          /\ PositionOf("detect_process") < PositionOf("evaluate")
          /\ PositionOf("evaluate") < PositionOf("generate_recommendation")
          /\ pc = "returned"

\* a RECOMMENDATION response with its recommendation, the classifier, the
\* engine and the specialist called in that order
C28_Witness ==
    /\ Responded
    /\ response.kind = "ok"
    /\ response.status = "RECOMMENDATION"
    /\ response.recommendation = <<ModelRecommendation>>
    /\ calls = <<"create_router_agent", "detect_process",
                 "load_rules_engine", "evaluate",
                 "create_stop_reparto_agent", "generate_recommendation">>

---------------------------------------------------------------------------
(* C29 *)

\* the fields whose value in the enriched context came from the
\* classifier's extraction
MergedFields == {f \in Fields : enriched_context[f] # StaticContext[f]}

\* C29: when a request ends in terminal state UNKNOWN because the
\* confidence is below 0.30, the process of the response is "UNKNOWN"
\* whatever label the classifier gave, the confidence of the response is
\* the classifier's confidence, and the enriched context of the response
\* holds the fields merged from the classifier's extraction.
C29_UnknownKeepsConfidenceAndContext ==
    (/\ Responded
     /\ response.kind = "ok"
     /\ response.status = "UNKNOWN"
     /\ ClassifiedConfidence < 30) =>
        /\ response.process = "UNKNOWN"
        /\ response.confidence = detection.confidence
        /\ \A f \in MergedFields :
              response.enriched_context[f] = Extracted[f]
        /\ \A f \in Fields \ MergedFields :
              response.enriched_context[f] = StaticContext[f]

\* a request classified STOP_REPARTO with confidence 0.25 has ended in
\* UNKNOWN with the extracted plan in its enriched context
C29_Witness ==
    /\ Responded
    /\ response.status = "UNKNOWN"
    /\ ClassifiedProcess = "STOP_REPARTO"
    /\ ClassifiedConfidence = 25
    /\ response.process = "UNKNOWN"
    /\ response.confidence = Num(25)
    /\ Missing(StaticContext["plan"])
    /\ "plan" \in MergedFields
    /\ response.enriched_context["plan"] = Str("Estandar")

---------------------------------------------------------------------------
(* C30 *)

\* the message being handled is a tools/call of analyze_customer_case
AnalyzeCall ==
    payload.method = "tools/call" /\ payload.name = "analyze_customer_case"

\* the analysis of the message has failed: analyze_conversation ended in
\* an HTTP error or an internal error, or its recommendation lacks a key
\* the handler reads
AnalysisFailed ==
    /\ Responded
    /\ \/ response.kind = "error"
       \/ /\ response.recommendation # << >>
          /\ \E k \in {"titulo", "speech_sugerido", "siguiente_paso"} :
                response.recommendation[1][k] = Absent

\* handle_messages has answered the message
Answered == reply.kind # "none"

\* every failure of the analysis is answered with isError true
FailedAnalysisIsError ==
    (AnalyzeCall /\ AnalysisFailed /\ Answered) =>
        (reply.kind = "response" /\ reply.isError)

\* every JSON-RPC response carries the id of its request
ResponseCarriesId == reply.kind = "response" => reply.id = payload.id

\* C30: handle_messages never propagates a failure of a tools/call of
\* analyze_customer_case: every error raised while analysing (HTTP 400,
\* 404, 501, an internal error, a recommendation lacking an expected key)
\* is answered with a JSON-RPC result whose isError is true, and every
\* JSON-RPC response carries the id of the request it answers.
C30_ToolCallFailureNeverPropagates ==
    /\ AnalyzeCall => reply.kind # "raised"
    /\ FailedAnalysisIsError
    /\ ResponseCarriesId

=============================================================================
